---- MODULE Spec2Model ----
(***************************************************************************)
(* Model of readingbricks/db_control.py: the transaction helper            *)
(* open_transaction and the class DatabaseCreator, which folds the cells   *)
(* of the notes into a mapping from tag to note headers and writes that    *)
(* mapping to an SQLite database, one table per tag.                       *)
(*                                                                         *)
(* One behaviour is a note source and a destination database, on which     *)
(* create_or_update_db is run again and again.  Every SQL statement is     *)
(* one step; a statement either succeeds or raises.                        *)
(***************************************************************************)
EXTENDS Integers, Sequences, FiniteSets, TLC

\* ------------------------------------------------------------------ bounds

\* Largest number of cells the note source holds.
MaxCells == 2

\* ------------------------------------------------------------ input domain

\* The reserved tag every cell is filed under (the literal of line 64).
ALL_NOTES == "all_notes"

\* Tag names of the modelled notes; each is also the name of a table.
Tags == {"x", "y", ALL_NOTES}

\* First lines of the modelled cells, as sequences of characters:
\* "## A\n" and " # B".
LineA == <<"#", "#", " ", "A", "\n">>

LineB == <<" ", "#", " ", "B">>

Lines == {LineA, LineB}

\* Tag lists (cell['metadata']['tags']) of the modelled cells: none, one,
\* two, the same tag twice, and the reserved tag given explicitly.
TagLists == {<< >>, <<"x">>, <<"x", "y">>, <<"x", "x">>, <<ALL_NOTES>>}

\* A well-formed cell has a first source line and a 'tags' entry in its
\* metadata; a cell without either makes the subscript of lines 62/64 raise.
GoodCells ==
    {[source |-> <<l>>, has_tags |-> TRUE, tags |-> ts] : l \in Lines, ts \in TagLists}

BadCells ==
    { [source |-> << >>, has_tags |-> TRUE, tags |-> <<"x">>],
      [source |-> <<LineA>>, has_tags |-> FALSE, tags |-> << >>] }

Cells == GoodCells \cup BadCells

RECURSIVE SeqsUpTo(_, _)
SeqsUpTo(S, n) ==
    IF n = 0 THEN {<< >>}
    ELSE LET shorter == SeqsUpTo(S, n - 1)
         IN  shorter \cup {Append(s, e) : s \in {q \in shorter : Len(q) = n - 1}, e \in S}

\* The note sources: what utils.extract_cells yields, in order.
NoteSources == SeqsUpTo(Cells, MaxCells)

Range(s) == {s[j] : j \in 1..Len(s)}

\* ------------------------------------------------------- string functions

\* str.rstrip(chars): drop every trailing character that is in chars.
RECURSIVE rstrip(_, _)
rstrip(s, chars) ==
    IF s # << >> /\ s[Len(s)] \in chars
    THEN rstrip(SubSeq(s, 1, Len(s) - 1), chars)
    ELSE s

\* str.lstrip(chars): drop every leading character that is in chars.
RECURSIVE lstrip(_, _)
lstrip(s, chars) ==
    IF s # << >> /\ Head(s) \in chars
    THEN lstrip(Tail(s), chars)
    ELSE s

\* Lines 62-63: the header of a cell is its first line without trailing
\* newlines and without leading '#' and ' ' characters.
cell_header(cell) == lstrip(rstrip(cell.source[1], {"\n"}), {"#", " "})

\* utils.compress: a deterministic short identifier of a header, distinct
\* for distinct headers.
compress(note_title) == <<"id">> \o note_title

\* The identifier of a note that is no longer in the source (header "O").
OldId == compress(<<"O">>)

\* ------------------------------------------------------------------ state

VARIABLES
    cells,          \* the note source: the cells extract_cells yields
    db,             \* committed content of the database file: tag -> table
    work,           \* content as seen inside the open transaction
    pc,             \* position of create_or_update_db
    i,              \* number of cells consumed by the loop of line 107
    tag_to_notes,   \* the mapping, as its items() in insertion order
    t,              \* index of the item the loop of line 76 is at
    n,              \* index of the note the loop of line 91 is at
    conn,           \* the connection: "none", "open", "closed"
    txn,            \* TRUE while a transaction is open on the connection
    cur,            \* the cursor of open_transaction: "none", "open", "closed"
    cur2,           \* the cursor of line 96: "none", "open", "closed"
    printed,        \* TRUE once the handler of line 31 has printed the error
    body_raised,    \* TRUE once a statement of lines 76-95 has raised
    committed,      \* TRUE once the COMMIT of this run has succeeded
    result,         \* "none", "running", "returned", "raised"
    log,            \* the statements this run has executed, in order
    pre,            \* db as it was when this run started
    prev_committed, \* committed, of the run before this one
    prev_result     \* result, of the run before this one ("none": no run)

vars ==
    << cells, db, work, pc, i, tag_to_notes, t, n, conn, txn, cur, cur2,
       printed, body_raised, committed, result, log, pre, prev_committed,
       prev_result >>

\* A table that does not exist.
NoTable == [exists |-> FALSE, rows |-> << >>, index |-> FALSE]

\* A table of rows (note_id values in rowid order), with or without its
\* unique index <tag>_index.
Table(rows, index) == [exists |-> TRUE, rows |-> rows, index |-> index]

\* The databases the first run may find: a new file, or the tables earlier
\* runs left there: the table of all_notes and the tables of some tags,
\* holding the identifier of a note that is gone since.
InitStores ==
    {[tag \in Tags |-> NoTable]}
    \cup {stored \in [Tags -> {NoTable, Table(<<OldId>>, TRUE)}] : stored[ALL_NOTES].exists}

Init ==
    /\ cells \in NoteSources
    /\ db \in InitStores
    /\ work = db
    /\ pc = "idle"
    /\ i = 0
    /\ tag_to_notes = << >>
    /\ t = 0
    /\ n = 0
    /\ conn = "none"
    /\ txn = FALSE
    /\ cur = "none"
    /\ cur2 = "none"
    /\ printed = FALSE
    /\ body_raised = FALSE
    /\ committed = FALSE
    /\ result = "none"
    /\ log = << >>
    /\ pre = db
    /\ prev_committed = FALSE
    /\ prev_result = "none"

\* One executed statement: what it was, the table it names, the cursor it
\* ran on (0: none, 1: the cursor of line 26, 2: the cursor of line 96), how
\* it ended, and whether a transaction was open before it.  A statement ends
\* "ok", with "IntegrityError" (a unique index rejects it) or with
\* "OperationalError" (it fails for a reason outside the program).
Stmt(op, tag, cursor, outcome) ==
    [op |-> op, tag |-> tag, cursor |-> cursor, outcome |-> outcome, in_txn |-> txn]

\* ------------------------------------------------------- create_or_update_db

\* StartRun as it would be if the mapping were made with the reserved key
\* already in it.
StartRunSeedsAllNotes ==
    /\ pc = "idle"
    /\ pc' = "extract"
    /\ i' = 0
    /\ tag_to_notes' = <<[k |-> ALL_NOTES, v |-> << >>]>>
    /\ t' = 0
    /\ n' = 0
    /\ conn' = "none"
    /\ cur' = "none"
    /\ cur2' = "none"
    /\ printed' = FALSE
    /\ body_raised' = FALSE
    /\ prev_committed' = committed
    /\ prev_result' = result
    /\ committed' = FALSE
    /\ result' = "running"
    /\ log' = << >>
    /\ pre' = db
    /\ UNCHANGED <<cells, db, work, txn>>

\* Lines 99-106: a call of create_or_update_db starts with an empty mapping.
StartRun ==
    /\ pc = "idle"
    /\ pc' = "extract"
    /\ i' = 0
    /\ tag_to_notes' = << >>
    /\ t' = 0
    /\ n' = 0
    /\ conn' = "none"
    /\ cur' = "none"
    /\ cur2' = "none"
    /\ printed' = FALSE
    /\ body_raised' = FALSE
    /\ prev_committed' = committed
    /\ prev_result' = result
    /\ committed' = FALSE
    /\ result' = "running"
    /\ log' = << >>
    /\ pre' = db
    /\ UNCHANGED <<cells, db, work, txn>>

\* append_note as it would be if a header already in the tag's list were
\* not appended again.
append_note_once(mapping, tag, header) ==
    IF \E j \in 1..Len(mapping) : mapping[j].k = tag
    THEN [j \in 1..Len(mapping) |->
            IF mapping[j].k = tag /\ header \notin Range(mapping[j].v)
            THEN [k |-> tag, v |-> Append(mapping[j].v, header)]
            ELSE mapping[j]]
    ELSE Append(mapping, [k |-> tag, v |-> <<header>>])

\* tag_to_notes[tag].append(cell_header) on a defaultdict(list): a new key is
\* added after the existing ones, an existing key keeps its place.
append_note(mapping, tag, header) ==
    IF \E j \in 1..Len(mapping) : mapping[j].k = tag
    THEN [j \in 1..Len(mapping) |->
            IF mapping[j].k = tag
            THEN [k |-> tag, v |-> Append(mapping[j].v, header)]
            ELSE mapping[j]]
    ELSE Append(mapping, [k |-> tag, v |-> <<header>>])

\* cell_tags as it would be if the reserved tag were not added.
cell_tags_own(cell) == cell.tags

\* Line 64: the tags of the cell, then the reserved tag.
cell_tags(cell) == cell.tags \o <<ALL_NOTES>>

RECURSIVE append_to_tags(_, _, _)
append_to_tags(mapping, tags, header) ==
    IF tags = << >> THEN mapping
    ELSE append_to_tags(append_note(mapping, Head(tags), header), Tail(tags), header)

\* Lines 56-67.
update_mapping_of_tags_to_notes(mapping, cell) ==
    append_to_tags(mapping, cell_tags(cell), cell_header(cell))

\* Lines 106-110: the mapping after the loop has consumed the cells.
RECURSIVE fold_cells(_, _)
fold_cells(mapping, rest) ==
    IF rest = << >> THEN mapping
    ELSE fold_cells(update_mapping_of_tags_to_notes(mapping, Head(rest)), Tail(rest))

\* cell['source'][0] and cell['metadata']['tags'] are defined.
WellFormed(cell) == cell.source # << >> /\ cell.has_tags

\* Lines 107-110, one iteration on a cell that has a header and tags.
ProcessCell ==
    /\ pc = "extract"
    /\ i < Len(cells)
    /\ WellFormed(cells[i + 1])
    /\ tag_to_notes' = update_mapping_of_tags_to_notes(tag_to_notes, cells[i + 1])
    /\ i' = i + 1
    /\ UNCHANGED << cells, db, work, pc, t, n, conn, txn, cur, cur2, printed,
                    body_raised, committed, result, log, pre, prev_committed,
                    prev_result >>

\* Lines 107-110, one iteration on a cell whose subscripts raise: the
\* exception leaves create_or_update_db.
ProcessCellRaises ==
    /\ pc = "extract"
    /\ i < Len(cells)
    /\ ~WellFormed(cells[i + 1])
    /\ pc' = "idle"
    /\ result' = "raised"
    /\ UNCHANGED << cells, db, work, i, tag_to_notes, t, n, conn, txn, cur, cur2,
                    printed, body_raised, committed, log, pre, prev_committed,
                    prev_result >>

\* ------------------------------------------ __write_tag_to_notes_mapping_to_db

\* Connect as it would be if the database were opened while cells are
\* still being consumed.
ConnectEarly ==
    /\ pc = "extract"
    /\ pc' = "begin"
    /\ conn' = "open"
    /\ log' = Append(log, Stmt("CONNECT", "", 0, "ok"))
    /\ UNCHANGED << cells, db, work, i, tag_to_notes, t, n, txn, cur, cur2, printed,
                    body_raised, committed, result, pre, prev_committed,
                    prev_result >>

\* Line 74, once the loop of line 107 has consumed every cell: the
\* connection is opened (the file is created when it is absent).
Connect ==
    /\ pc = "extract"
    /\ i = Len(cells)
    /\ pc' = "begin"
    /\ conn' = "open"
    /\ log' = Append(log, Stmt("CONNECT", "", 0, "ok"))
    /\ UNCHANGED << cells, db, work, i, tag_to_notes, t, n, txn, cur, cur2, printed,
                    body_raised, committed, result, pre, prev_committed,
                    prev_result >>

\* Line 74, sqlite3.connect raising: nothing was opened, the exception
\* leaves create_or_update_db.
ConnectRaises ==
    /\ pc = "extract"
    /\ i = Len(cells)
    /\ pc' = "idle"
    /\ result' = "raised"
    /\ log' = Append(log, Stmt("CONNECT", "", 0, "OperationalError"))
    /\ UNCHANGED << cells, db, work, i, tag_to_notes, t, n, conn, txn, cur, cur2,
                    printed, body_raised, committed, pre, prev_committed,
                    prev_result >>

\* Where the body of the with block goes after the statements of item `at`:
\* to the next item of the mapping, or out of the block to line 34.
AfterItem(at) ==
    IF at < Len(tag_to_notes)
    THEN /\ pc' = "create_table"
         /\ t' = at + 1
         /\ n' = 0
    ELSE /\ pc' = "commit"
         /\ t' = at
         /\ n' = 0

\* Lines 26-27 and 29: the cursor is made, BEGIN TRANSACTION succeeds and
\* the body is entered.
BeginTransaction ==
    /\ pc = "begin"
    /\ cur' = "open"
    /\ txn' = TRUE
    /\ work' = db
    /\ log' = Append(log, Stmt("BEGIN", "", 1, "ok"))
    /\ AfterItem(0)
    /\ UNCHANGED << cells, db, i, tag_to_notes, conn, cur2, printed, body_raised,
                    committed, result, pre, prev_committed,
                    prev_result >>

\* Lines 26-27, BEGIN TRANSACTION raising: the statement is outside the try
\* of line 28, so neither the handler nor the finally clause runs; closing()
\* of line 74 closes the connection and the exception leaves the run.
BeginTransactionRaises ==
    /\ pc = "begin"
    /\ cur' = "open"
    /\ conn' = "closed"
    /\ log' = Append(log, Stmt("BEGIN", "", 1, "OperationalError"))
    /\ pc' = "idle"
    /\ result' = "raised"
    /\ UNCHANGED << cells, db, work, i, tag_to_notes, t, n, txn, cur2, printed,
                    body_raised, committed, pre, prev_committed,
                    prev_result >>

\* The item of the mapping the loop of line 76 is at.
k == tag_to_notes[t].k

v == tag_to_notes[t].v

\* A statement of the body raising: the statement has no effect and control
\* goes to the handler of line 30.
BodyRaises(op, error) ==
    /\ pc' = "except"
    /\ body_raised' = TRUE
    /\ log' = Append(log, Stmt(op, k, 1, error))
    /\ UNCHANGED << cells, db, work, i, tag_to_notes, t, n, conn, txn, cur, cur2,
                    printed, committed, result, pre, prev_committed,
                    prev_result >>

\* create_table as it would be if the table were dropped and made anew.
recreate_table(tables, tag) ==
    [tables EXCEPT ![tag] = Table(<< >>, FALSE)]

\* CREATE TABLE IF NOT EXISTS: an existing table is left as it is.
create_table(tables, tag) ==
    IF tables[tag].exists THEN tables
    ELSE [tables EXCEPT ![tag] = Table(<< >>, FALSE)]

\* CreateTable as it would be if the statement committed the open
\* transaction before running (DDL run in autocommit).
CreateTableAutocommits ==
    /\ pc = "create_table"
    /\ work' = create_table(work, k)
    /\ db' = work
    /\ pc' = "create_index"
    /\ log' = Append(log, Stmt("CREATE TABLE", k, 1, "ok"))
    /\ UNCHANGED << cells, i, tag_to_notes, t, n, conn, txn, cur, cur2, printed,
                    body_raised, committed, result, pre, prev_committed,
                    prev_result >>

\* Lines 77-79.
CreateTable ==
    /\ pc = "create_table"
    /\ work' = create_table(work, k)
    /\ pc' = "create_index"
    /\ log' = Append(log, Stmt("CREATE TABLE", k, 1, "ok"))
    /\ UNCHANGED << cells, db, i, tag_to_notes, t, n, conn, txn, cur, cur2, printed,
                    body_raised, committed, result, pre, prev_committed,
                    prev_result >>

CreateTableRaises ==
    /\ pc = "create_table"
    /\ BodyRaises("CREATE TABLE", "OperationalError")

HasDuplicates(rows) == Cardinality(Range(rows)) # Len(rows)

\* CREATE UNIQUE INDEX IF NOT EXISTS: an existing index is left as it is.
create_index(tables, tag) ==
    [tables EXCEPT ![tag].index = TRUE]

\* Lines 80-87.  A unique index cannot be built on rows that repeat.
CreateIndex ==
    /\ pc = "create_index"
    /\ work[k].index \/ ~HasDuplicates(work[k].rows)
    /\ work' = create_index(work, k)
    /\ pc' = "delete"
    /\ log' = Append(log, Stmt("CREATE INDEX", k, 1, "ok"))
    /\ UNCHANGED << cells, db, i, tag_to_notes, t, n, conn, txn, cur, cur2, printed,
                    body_raised, committed, result, pre, prev_committed,
                    prev_result >>

CreateIndexRaises ==
    /\ pc = "create_index"
    /\ BodyRaises("CREATE INDEX",
                  IF ~work[k].index /\ HasDuplicates(work[k].rows)
                  THEN "IntegrityError" ELSE "OperationalError")

\* delete_from as it would be if the rows were kept.
delete_nothing(tables, tag) == tables

\* delete_from as it would be if it cleared every table of the database.
delete_everywhere(tables, tag) ==
    [name \in DOMAIN tables |-> [tables[name] EXCEPT !.rows = << >>]]

\* DELETE FROM: every row goes.
delete_from(tables, tag) ==
    [tables EXCEPT ![tag].rows = << >>]

\* Lines 88-90.
DeleteRows ==
    /\ pc = "delete"
    /\ work' = delete_from(work, k)
    /\ log' = Append(log, Stmt("DELETE", k, 1, "ok"))
    /\ IF v = << >>
       THEN AfterItem(t)
       ELSE pc' = "insert" /\ n' = 1 /\ t' = t
    /\ UNCHANGED << cells, db, i, tag_to_notes, conn, txn, cur, cur2, printed,
                    body_raised, committed, result, pre, prev_committed,
                    prev_result >>

DeleteRowsRaises ==
    /\ pc = "delete"
    /\ BodyRaises("DELETE", "OperationalError")

\* violates_unique as it would be if the index did not enforce uniqueness.
violates_never(tables, tag, note_id) == FALSE

\* The unique index rejects a note_id the table already holds.
violates_unique(tables, tag, note_id) ==
    tables[tag].index /\ note_id \in Range(tables[tag].rows)

\* INSERT INTO: the row is added after the others.
insert_into(tables, tag, note_id) ==
    [tables EXCEPT ![tag].rows = Append(@, note_id)]

\* InsertRow as it would be if the connection committed every INSERT at once
\* (autocommit) instead of keeping it in the transaction.
InsertRowAutocommits ==
    /\ pc = "insert"
    /\ ~violates_unique(work, k, compress(v[n]))
    /\ work' = insert_into(work, k, compress(v[n]))
    /\ db' = work'
    /\ log' = Append(log, Stmt("INSERT", k, 1, "ok"))
    /\ IF n < Len(v)
       THEN pc' = "insert" /\ n' = n + 1 /\ t' = t
       ELSE AfterItem(t)
    /\ UNCHANGED << cells, i, tag_to_notes, conn, txn, cur, cur2, printed,
                    body_raised, committed, result, pre, prev_committed,
                    prev_result >>

\* Lines 91-95, one iteration.
InsertRow ==
    /\ pc = "insert"
    /\ ~violates_unique(work, k, compress(v[n]))
    /\ work' = insert_into(work, k, compress(v[n]))
    /\ log' = Append(log, Stmt("INSERT", k, 1, "ok"))
    /\ IF n < Len(v)
       THEN pc' = "insert" /\ n' = n + 1 /\ t' = t
       ELSE AfterItem(t)
    /\ UNCHANGED << cells, db, i, tag_to_notes, conn, txn, cur, cur2, printed,
                    body_raised, committed, result, pre, prev_committed,
                    prev_result >>

\* Lines 91-95, the INSERT raising: the unique index rejects the row, or
\* the statement fails for a reason outside the program.
InsertRowRaises ==
    /\ pc = "insert"
    /\ BodyRaises("INSERT",
                  IF violates_unique(work, k, compress(v[n]))
                  THEN "IntegrityError" ELSE "OperationalError")

\* ------------------------------------------------------------ open_transaction

\* Rollback as it would be if the handler re-raised the error of the body
\* after rolling back.
RollbackReraises ==
    /\ pc = "except"
    /\ printed' = TRUE
    /\ log' = Append(log, Stmt("ROLLBACK", "", 1, "ok"))
    /\ txn' = FALSE
    /\ work' = db
    /\ cur' = "closed"
    /\ conn' = "closed"
    /\ pc' = "idle"
    /\ result' = "raised"
    /\ UNCHANGED << cells, db, i, tag_to_notes, t, n, cur2, body_raised, committed,
                    pre, prev_committed,
                    prev_result >>

\* Rollback as it would be if the handler ended the transaction by keeping
\* what the body had written so far.
RollbackKeepsChanges ==
    /\ pc = "except"
    /\ printed' = TRUE
    /\ log' = Append(log, Stmt("ROLLBACK", "", 1, "ok"))
    /\ txn' = FALSE
    /\ db' = work
    /\ cur' = "closed"
    /\ pc' = "vacuum"
    /\ UNCHANGED << cells, work, i, tag_to_notes, t, n, conn, cur2, body_raised,
                    committed, result, pre, prev_committed,
                    prev_result >>

\* Rollback as it would be if the writer returned from the with block
\* without compacting after a rolled-back transaction.
RollbackSkipsVacuum ==
    /\ pc = "except"
    /\ printed' = TRUE
    /\ txn' = FALSE
    /\ work' = db
    /\ cur' = "closed"
    /\ log' = Append(log, Stmt("ROLLBACK", "", 1, "ok"))
    /\ conn' = "closed"
    /\ result' = "returned"
    /\ pc' = "idle"
    /\ UNCHANGED <<cells, db, i, tag_to_notes, t, n, cur2, body_raised, committed,
                   pre, prev_committed, prev_result>>

\* Lines 30-32 and 36: the handler prints the error, ROLLBACK succeeds,
\* the cursor is closed, and the with block of line 75 ends normally.
Rollback ==
    /\ pc = "except"
    /\ printed' = TRUE
    /\ log' = Append(log, Stmt("ROLLBACK", "", 1, "ok"))
    /\ txn' = FALSE
    /\ work' = db
    /\ cur' = "closed"
    /\ pc' = "vacuum"
    /\ UNCHANGED << cells, db, i, tag_to_notes, t, n, conn, cur2, body_raised,
                    committed, result, pre, prev_committed,
                    prev_result >>

\* Lines 30-32 and 36, ROLLBACK raising: the cursor is closed by the finally
\* clause, the exception leaves open_transaction, closing() of line 74
\* closes the connection (which drops the open transaction), and the
\* exception leaves create_or_update_db.
RollbackRaises ==
    /\ pc = "except"
    /\ printed' = TRUE
    /\ log' = Append(log, Stmt("ROLLBACK", "", 1, "OperationalError"))
    /\ txn' = FALSE
    /\ work' = db
    /\ cur' = "closed"
    /\ conn' = "closed"
    /\ pc' = "idle"
    /\ result' = "raised"
    /\ UNCHANGED << cells, db, i, tag_to_notes, t, n, cur2, body_raised, committed,
                    pre, prev_committed,
                    prev_result >>

\* Commit as it would be if the else clause closed the cursor without
\* committing: the transaction stays open.
CommitForgotten ==
    /\ pc = "commit"
    /\ cur' = "closed"
    /\ pc' = "vacuum"
    /\ UNCHANGED << cells, db, work, i, tag_to_notes, t, n, conn, txn, cur2, printed,
                    body_raised, committed, result, log, pre, prev_committed,
                    prev_result >>

\* Lines 33-34 and 36: the body ended normally, COMMIT succeeds and makes
\* the content of the transaction the content of the file.
Commit ==
    /\ pc = "commit"
    /\ log' = Append(log, Stmt("COMMIT", "", 1, "ok"))
    /\ db' = work
    /\ txn' = FALSE
    /\ committed' = TRUE
    /\ cur' = "closed"
    /\ pc' = "vacuum"
    /\ UNCHANGED << cells, work, i, tag_to_notes, t, n, conn, cur2, printed,
                    body_raised, result, pre, prev_committed,
                    prev_result >>

\* Lines 33-34 and 36, COMMIT raising: the else clause is not covered by the
\* handler; the cursor is closed, the connection is closed with the
\* transaction uncommitted, and the exception leaves create_or_update_db.
CommitRaises ==
    /\ pc = "commit"
    /\ log' = Append(log, Stmt("COMMIT", "", 1, "OperationalError"))
    /\ txn' = FALSE
    /\ work' = db
    /\ cur' = "closed"
    /\ conn' = "closed"
    /\ pc' = "idle"
    /\ result' = "raised"
    /\ UNCHANGED << cells, db, i, tag_to_notes, t, n, cur2, printed, body_raised,
                    committed, pre, prev_committed,
                    prev_result >>

\* Lines 96-97 and the end of the with block of line 74: VACUUM on a cursor
\* of its own, which closing() closes, then the connection is closed and
\* create_or_update_db returns.
Vacuum ==
    /\ pc = "vacuum"
    /\ log' = Append(log, Stmt("VACUUM", "", 2, "ok"))
    /\ cur2' = "closed"
    /\ conn' = "closed"
    /\ pc' = "idle"
    /\ result' = "returned"
    /\ UNCHANGED << cells, db, work, i, tag_to_notes, t, n, txn, cur, printed,
                    body_raised, committed, pre, prev_committed,
                    prev_result >>

\* Lines 96-97, VACUUM raising: both closing() blocks still close, and the
\* exception leaves create_or_update_db.
VacuumRaises ==
    /\ pc = "vacuum"
    /\ log' = Append(log, Stmt("VACUUM", "", 2, "OperationalError"))
    /\ cur2' = "closed"
    /\ conn' = "closed"
    /\ pc' = "idle"
    /\ result' = "raised"
    /\ UNCHANGED << cells, db, work, i, tag_to_notes, t, n, txn, cur, printed,
                    body_raised, committed, pre, prev_committed,
                    prev_result >>

Next ==
    \/ StartRun
    \/ ProcessCell
    \/ ProcessCellRaises
    \/ Connect
    \/ ConnectRaises
    \/ BeginTransaction
    \/ BeginTransactionRaises
    \/ CreateTable
    \/ CreateTableRaises
    \/ CreateIndex
    \/ CreateIndexRaises
    \/ DeleteRows
    \/ DeleteRowsRaises
    \/ InsertRow
    \/ InsertRowRaises
    \/ Rollback
    \/ RollbackRaises
    \/ Commit
    \/ CommitRaises
    \/ Vacuum
    \/ VacuumRaises

Spec == Init /\ [][Next]_vars

\* ------------------------------------------------------------------ claims

\* A call of create_or_update_db has ended (returned or raised).
RunOver == pc = "idle" /\ result # "none"

\* The entries of the log with the given operation, as positions.
Where(op) == {j \in 1..Len(log) : log[j].op = op}

Failed(j) == log[j].outcome # "ok"

\* The keys of the mapping.
Keys(mapping) == {mapping[j].k : j \in 1..Len(mapping)}

\* The compact identifiers of a list of headers, in list order.
Ids(headers) == [j \in 1..Len(headers) |-> compress(headers[j])]

\* C1: atomic rollback.  When a table operation (CREATE TABLE, CREATE
\* UNIQUE INDEX, DELETE, INSERT) has failed for some tag, the database
\* after the run is the database before the run, for every tag: rows and
\* index of every table as before, and no table that was absent.
C1_AtomicRollback ==
    (RunOver /\ body_raised) => (db = pre /\ ~txn)

\* C1 witness: a run that failed on tag y after the statements of tag x had
\* all succeeded, x's table being new in this run.
C1_Witness ==
    /\ RunOver
    /\ body_raised
    /\ ~pre["x"].exists
    /\ \E j \in Where("INSERT") : log[j].tag = "x" /\ ~Failed(j)
    /\ \E j \in 1..Len(log) : log[j].tag = "y" /\ Failed(j)

\* The cells whose tags (line 64) include the tag, as positions.
CellsTagged(tag) == {j \in 1..Len(cells) : tag \in Range(cell_tags(cells[j]))}

\* Within each tag's list the compact identifiers are pairwise distinct.
DistinctIds == \A j \in 1..Len(tag_to_notes) : ~HasDuplicates(Ids(tag_to_notes[j].v))

\* C2: when the identifiers within each tag's list are pairwise distinct and
\* no operation fails, then after create_or_update_db returns the table of
\* each tag of the index holds exactly the identifiers of the cells carrying
\* the tag, each once, and no row from before the run that this run did
\* not produce; all_notes holds the identifiers of all cells.
C2_TablesHoldExactlyTheNotes ==
    (RunOver /\ result = "returned" /\ DistinctIds /\ \A j \in 1..Len(log) : ~Failed(j))
    => /\ \A tag \in Keys(tag_to_notes) :
            /\ db[tag].exists
            /\ Range(db[tag].rows) = {compress(cell_header(cells[j])) : j \in CellsTagged(tag)}
            /\ ~HasDuplicates(db[tag].rows)
       /\ cells # << >> =>
            /\ ALL_NOTES \in Keys(tag_to_notes)
            /\ Range(db[ALL_NOTES].rows) = {compress(cell_header(cells[j])) : j \in 1..Len(cells)}

\* C2 witness: the run of the notes A tagged x and B tagged x, y has
\* returned without a failure, on tables that held another identifier.
C2_Witness ==
    /\ RunOver
    /\ result = "returned"
    /\ \A j \in 1..Len(log) : ~Failed(j)
    /\ Len(cells) = 2
    /\ cells[1].tags = <<"x">> /\ cells[1].source = <<LineA>>
    /\ cells[2].tags = <<"x", "y">> /\ cells[2].source = <<LineB>>
    /\ \A tag \in Tags : pre[tag] = Table(<<OldId>>, TRUE)
    /\ db["x"].rows = <<compress(<<"A">>), compress(<<"B">>)>>
    /\ db["y"].rows = <<compress(<<"B">>)>>


\* The list the mapping holds under a tag (empty when the tag is no key).
NotesOf(mapping, tag) ==
    IF tag \in Keys(mapping)
    THEN (CHOOSE item \in Range(mapping) : item.k = tag).v
    ELSE << >>

\* No statement of the run failed for a reason outside the program.
NoOutsideFailure == \A j \in 1..Len(log) : log[j].outcome # "OperationalError"

\* C3 (as claimed): after a run, for every tag of the index the table's row
\* count is the number of distinct identifiers of the tag's list, also when
\* the list repeats an identifier (the repeats collapse into one row).
C3_DuplicatesCollapse ==
    (RunOver /\ result = "returned" /\ NoOutsideFailure)
    => \A tag \in Keys(tag_to_notes) :
          /\ db[tag].exists
          /\ Len(db[tag].rows) = Cardinality(Range(Ids(NotesOf(tag_to_notes, tag))))

\* C4 (as claimed): after any number of cells, also cells whose own tags
\* name all_notes, the list under all_notes is the sequence of the headers
\* of the cells consumed, one entry per cell.
C4_AllNotesOncePerCell ==
    (pc = "extract" \/ log # << >>)
    => NotesOf(tag_to_notes, ALL_NOTES) = [j \in 1..i |-> cell_header(cells[j])]

\* The statements run on the cursor of open_transaction, as positions.
OnCursor == {j \in 1..Len(log) : log[j].cursor = 1}

Last(S) == CHOOSE j \in S : \A m \in S : m <= j

\* Control has left open_transaction (the with block of line 75 is over).
LeftTransaction == pc \in {"vacuum", "idle"} /\ cur # "none"

\* C5 (as claimed): whenever the body raised, the handler rolls back,
\* reports, does not re-raise, and create_or_update_db returns normally with
\* nothing of the run committed.
C5_BodyErrorAlwaysReturns ==
    (RunOver /\ body_raised)
    => /\ result = "returned"
       /\ printed
       /\ Where("ROLLBACK") # {}
       /\ ~committed
       /\ db = pre

\* C5 (amended): open_transaction begins a transaction on entry; a body that
\* finishes normally is followed by COMMIT; a body that raises is followed
\* by the report and ROLLBACK, nothing of the run is committed, and the
\* body's error is not re-raised: when ROLLBACK succeeds VACUUM is executed
\* next, and create_or_update_db returns normally exactly when ROLLBACK and
\* VACUUM both succeed (an error of theirs reaches the caller).
C5_TransactionScopeOutcome ==
    /\ cur # "none" =>
          /\ OnCursor # {}
          /\ \A j \in OnCursor : log[j].op = "BEGIN" <=> (\A m \in OnCursor : j <= m)
    /\ (LeftTransaction /\ ~body_raised /\ \A j \in Where("BEGIN") : ~Failed(j))
          => /\ log[Last(OnCursor)].op = "COMMIT"
             /\ Where("ROLLBACK") = {}
             /\ committed <=> ~Failed(Last(OnCursor))
    /\ (LeftTransaction /\ body_raised)
          => /\ printed
             /\ log[Last(OnCursor)].op = "ROLLBACK"
             /\ Failed(Last(OnCursor) - 1)
             /\ Where("COMMIT") = {}
             /\ ~committed
             /\ db = pre
             /\ ~Failed(Last(OnCursor)) => (pc = "vacuum" \/ Where("VACUUM") # {})
    /\ (RunOver /\ body_raised)
          => (result = "returned" <=> \A j \in Where("ROLLBACK") \cup Where("VACUUM") : ~Failed(j))

\* C5 witness: a run whose body raised, whose ROLLBACK and VACUUM succeeded,
\* and which returned normally although the body had written rows.
C5_Witness ==
    /\ RunOver
    /\ body_raised
    /\ result = "returned"
    /\ printed
    /\ \E j \in Where("INSERT") : ~Failed(j)
    /\ \E j \in Where("ROLLBACK") : ~Failed(j)

\* C6 (as claimed): when create_or_update_db has returned twice in
\* succession on the unchanged source, every table is after the second run
\* as the first run left it, for every starting database.
C6_SecondRunChangesNothing ==
    (RunOver /\ prev_result # "none" /\ prev_result = "returned" /\ result = "returned") => db = pre

\* C6 (amended): a run on the unchanged source that follows a run that
\* committed leaves every table, its rows and its index as that run left
\* them, whether it commits or is rolled back; so does a run that does not
\* commit.  (A run that commits after a run that failed does change them.)
C6_Idempotence ==
    (RunOver /\ prev_result # "none" /\ (prev_committed \/ ~committed)) => db = pre

\* C6 witness: two runs in succession have committed, the second rewriting
\* the two rows the first had written.
C6_Witness ==
    /\ RunOver
    /\ prev_committed
    /\ committed
    /\ pre["x"].rows = <<compress(<<"A">>), compress(<<"B">>)>>
    /\ Cardinality({j \in Where("INSERT") : log[j].tag = "x" /\ ~Failed(j)}) = 2

C8_ExtractionBeforeWrite ==
    /\ (log # << >> \/ conn # "none") =>
          /\ i = Len(cells)
          /\ tag_to_notes = fold_cells(<< >>, cells)
    /\ (RunOver /\ \E j \in 1..Len(cells) : ~WellFormed(cells[j])) =>
          /\ result = "raised"
          /\ log = << >>
          /\ conn = "none" /\ cur = "none" /\ cur2 = "none" /\ ~txn
          /\ db = pre

\* C8 witness: the second cell raised after the first had been filed; the
\* run ended raised and nothing was done to the database.
C8_Witness ==
    /\ RunOver
    /\ result = "raised"
    /\ Len(cells) = 2
    /\ i = 1
    /\ ~WellFormed(cells[2])
    /\ tag_to_notes # << >>
    /\ log = << >>

\* C9 (as claimed): on every path out of open_transaction, the paths where
\* BEGIN, COMMIT or ROLLBACK fails included, the cursor it made is closed.
C9_CursorAlwaysClosed ==
    LeftTransaction => cur = "closed"

\* C10: in a run that commits VACUUM is executed exactly once, after the
\* COMMIT and on another cursor; and no VACUUM is ever executed while the
\* transaction of the run is open.
C10_VacuumAfterTransaction ==
    /\ (RunOver /\ committed) =>
          /\ Cardinality(Where("VACUUM")) = 1
          /\ \A c \in Where("COMMIT") : \A w \in Where("VACUUM") :
                c < w /\ log[c].cursor # log[w].cursor
    /\ \A w \in Where("VACUUM") : ~log[w].in_txn /\ log[w].cursor = 2
    /\ pc = "vacuum" => ~txn

\* C10 witness: a run has committed and then executed VACUUM.
C10_Witness ==
    /\ RunOver
    /\ committed
    /\ \E c \in Where("COMMIT") : \E w \in Where("VACUUM") : c < w /\ ~Failed(w)
    /\ db # pre

\* The statements of the log that name a table, as positions.
TableStatements ==
    {j \in 1..Len(log) : log[j].op \in {"CREATE TABLE", "CREATE INDEX", "DELETE", "INSERT"}}

\* C11: when the note source is empty the index has no tag at all, not even
\* all_notes; the run creates, clears and inserts into no table; and the
\* tables and their contents are, inside the transaction and after the run,
\* those of before the run.
C11_EmptySource ==
    (cells = << >> /\ result # "none")
    => /\ tag_to_notes = << >>
       /\ TableStatements = {}
       /\ work = pre
       /\ db = pre

\* C11 witness: a run on an empty source has committed its (empty)
\* transaction on a database that held tables.
C11_Witness ==
    /\ cells = << >>
    /\ RunOver
    /\ committed
    /\ result = "returned"
    /\ pre["x"] = Table(<<OldId>>, TRUE)
    /\ pre[ALL_NOTES] = Table(<<OldId>>, TRUE)

\* The statements that end a transaction, as positions.
Ends == Where("COMMIT") \cup Where("ROLLBACK")

\* The statements of the log that name the table of the tag, by operation.
StatementsOn(op, tag) == {j \in Where(op) : log[j].tag = tag}

ItemStatements(item) ==
    << <<"CREATE TABLE", item.k>>, <<"CREATE INDEX", item.k>>, <<"DELETE", item.k>> >>
    \o [j \in 1..Len(item.v) |-> <<"INSERT", item.k>>]

RECURSIVE AllStatements(_)
AllStatements(mapping) ==
    IF mapping = << >> THEN << >>
    ELSE ItemStatements(Head(mapping)) \o AllStatements(Tail(mapping))

\* The statements on tables the run has executed, in order, as pairs of
\* operation and table.
RECURSIVE Executed(_)
Executed(entries) ==
    IF entries = << >> THEN << >>
    ELSE IF Head(entries).op \in {"CREATE TABLE", "CREATE INDEX", "DELETE", "INSERT"}
         THEN << <<Head(entries).op, Head(entries).tag>> >> \o Executed(Tail(entries))
         ELSE Executed(Tail(entries))

IsPrefix(s, whole) == Len(s) <= Len(whole) /\ s = SubSeq(whole, 1, Len(s))

\* C13: for each tag of the index, in the order of the index, the writer
\* executes create-table-if-absent, create-unique-index-if-absent,
\* delete-all-rows and then one insert per entry of the tag's list, in list
\* order; a table that existed is reused as it is, with its rows and index,
\* until the delete; a run that reaches COMMIT has executed all of them.
C13_PerTagStepOrder ==
    /\ IsPrefix(Executed(log), AllStatements(tag_to_notes))
    /\ (pc \in {"commit", "vacuum", "idle"} /\ Where("BEGIN") # {} /\ ~body_raised
          /\ \A b \in Where("BEGIN") : ~Failed(b))
          => /\ Executed(log) = AllStatements(tag_to_notes)
             /\ \A j \in TableStatements : ~Failed(j)
    /\ pc = "create_index" =>
          work[k] = (IF pre[k].exists THEN pre[k] ELSE Table(<< >>, FALSE))
    /\ pc = "delete" =>
          /\ work[k].rows = pre[k].rows
          /\ work[k].index
    /\ pc = "insert" => work[k].rows = Ids(SubSeq(v, 1, n - 1))
    /\ pc = "commit" =>
          \A j \in 1..Len(tag_to_notes) :
              work[tag_to_notes[j].k] = Table(Ids(tag_to_notes[j].v), TRUE)

\* C13 witness: the transaction has reached COMMIT after rewriting the
\* table of x, which existed, with two rows in list order, and making the
\* table of y.
C13_Witness ==
    /\ pc = "commit"
    /\ pre["x"] = Table(<<OldId>>, TRUE)
    /\ ~pre["y"].exists
    /\ work["x"].rows = <<compress(<<"A">>), compress(<<"B">>)>>
    /\ work["y"].rows = <<compress(<<"B">>)>>
    /\ Executed(log) = AllStatements(tag_to_notes)

\* One copy of the header for each occurrence of the tag in the tags.
RECURSIVE Copies(_, _, _)
Copies(tags, tag, header) ==
    IF tags = << >> THEN << >>
    ELSE (IF Head(tags) = tag THEN <<header>> ELSE << >>) \o Copies(Tail(tags), tag, header)

\* What the first `upto` cells contribute to the list of the tag: the header
\* of each cell, in the order of the cells, once per occurrence of the tag
\* among the tags the cell is filed under (its own, then all_notes).
RECURSIVE ExpectedNotes(_, _)
ExpectedNotes(tag, upto) ==
    IF upto = 0 THEN << >>
    ELSE ExpectedNotes(tag, upto - 1)
         \o Copies(cell_tags(cells[upto]), tag, cell_header(cells[upto]))

\* C14: after any number of cells, the list the index holds under each tag
\* is the sequence of the headers of the cells filed under the tag, in
\* extraction order, one entry per occurrence of the tag in the cell's tags;
\* repeated headers are kept; a tag no cell carries is no key.
C14_BuilderOrderAndMultiplicity ==
    /\ \A tag \in Tags : NotesOf(tag_to_notes, tag) = ExpectedNotes(tag, i)
    /\ Keys(tag_to_notes) = {tag \in Tags : ExpectedNotes(tag, i) # << >>}
    /\ Len(tag_to_notes) = Cardinality(Keys(tag_to_notes))

\* C14 witness: two cells with the same header, the first naming x twice,
\* have been filed: x holds the header three times.
C14_Witness ==
    /\ i = 2
    /\ cells[1].tags = <<"x", "x">>
    /\ cells[2].tags = <<"x">>
    /\ NotesOf(tag_to_notes, "x") = << <<"A">>, <<"A">>, <<"A">> >>
    /\ NotesOf(tag_to_notes, ALL_NOTES) = << <<"A">>, <<"A">> >>

\* The INSERTs the unique index has rejected, as positions.
Rejected == {j \in Where("INSERT") : log[j].outcome = "IntegrityError"}

\* C15 (as claimed): when a tag's list holds the same identifier twice and
\* the second insert has violated the unique index, the transaction is
\* rolled back, every table keeps its content of before the run, and
\* create_or_update_db returns normally.
C15_DuplicateAlwaysReturns ==
    (RunOver /\ ~DistinctIds /\ Rejected # {})
    => /\ db = pre
       /\ result = "returned"

\* C15 (amended): when a tag's list holds the same identifier twice, no run
\* commits and every table keeps its content of before the run; unless a
\* statement fails for a reason outside the program, the second INSERT of
\* the identifier is rejected by the unique index after the first had
\* succeeded, it is the last statement on a table, the error is reported,
\* ROLLBACK succeeds and create_or_update_db returns normally.  The index
\* rejects nothing when the identifiers of every list are distinct.
C15_DuplicateRollsBack ==
    /\ (RunOver /\ ~DistinctIds /\ log # << >>) => (db = pre /\ ~committed)
    /\ (RunOver /\ ~DistinctIds /\ log # << >> /\ NoOutsideFailure) =>
          /\ Cardinality(Rejected) = 1
          /\ \A j \in Rejected :
                /\ \A m \in TableStatements : m <= j
                /\ \E m \in Where("INSERT") : m < j /\ log[m].tag = log[j].tag /\ ~Failed(m)
                /\ HasDuplicates(Ids(NotesOf(tag_to_notes, log[j].tag)))
          /\ printed
          /\ \E e \in Where("ROLLBACK") : ~Failed(e)
          /\ result = "returned"
    /\ Rejected # {} => ~DistinctIds

\* C15 witness: the table of x, whose list has no duplicate, was rewritten,
\* then the second INSERT into all_notes was rejected; the run returned and
\* the table of x is as before the run.
C15_Witness ==
    /\ RunOver
    /\ result = "returned"
    /\ ~HasDuplicates(Ids(NotesOf(tag_to_notes, "x")))
    /\ \E j \in StatementsOn("INSERT", "x") : ~Failed(j)
    /\ \E j \in Rejected : log[j].tag = ALL_NOTES
    /\ pre["x"] = Table(<<OldId>>, TRUE)
    /\ db = pre

\* The successful ROLLBACKs of the run, as positions.
RolledBack == {j \in Where("ROLLBACK") : ~Failed(j)}

\* C16: when the transactional write fails and open_transaction rolls it
\* back, the writer goes on to VACUUM: the statement after a successful
\* ROLLBACK is the one VACUUM of the run, on the second cursor and outside
\* any transaction, the same as after a successful COMMIT, and the run does
\* not end before it was executed.
C16_VacuumAfterRollback ==
    /\ \A j \in RolledBack \cup {m \in Where("COMMIT") : ~Failed(m)} :
          /\ j = Len(log) => (pc = "vacuum" /\ result = "running" /\ conn = "open")
          /\ j < Len(log) =>
                /\ log[j + 1].op = "VACUUM"
                /\ log[j + 1].cursor = 2
                /\ ~log[j + 1].in_txn
                /\ Len(log) = j + 1
    /\ (RunOver /\ RolledBack # {}) =>
          /\ body_raised
          /\ Cardinality(Where("VACUUM")) = 1
          /\ result = "returned" <=> \A m \in Where("VACUUM") : ~Failed(m)

\* C16 witness: an INSERT was rejected, ROLLBACK succeeded, VACUUM was
\* executed and the run returned.
C16_Witness ==
    /\ RunOver
    /\ body_raised
    /\ ~committed
    /\ RolledBack # {}
    /\ \E m \in Where("VACUUM") : ~Failed(m) /\ m = Len(log)
    /\ result = "returned"

\* C17: after any number of cells processed, every key of the mapping has a
\* non-empty list, all_notes is a key exactly when a cell has been
\* processed, its list is at least as long as the number of cells
\* processed, and every header of any list is also in the list of all_notes.
C17_IndexInvariant ==
    /\ \A e \in Range(tag_to_notes) : e.v # << >>
    /\ ALL_NOTES \in Keys(tag_to_notes) <=> i > 0
    /\ Len(NotesOf(tag_to_notes, ALL_NOTES)) >= i
    /\ \A tag \in Keys(tag_to_notes) :
          Range(NotesOf(tag_to_notes, tag)) \subseteq Range(NotesOf(tag_to_notes, ALL_NOTES))

\* C17 witness: two cells with different headers processed, the first
\* tagged all_notes explicitly and the second tagged x.
C17_Witness ==
    /\ i = 2
    /\ cells[1].tags = <<ALL_NOTES>>
    /\ cells[2].tags = <<"x">>
    /\ cell_header(cells[1]) # cell_header(cells[2])
    /\ Len(NotesOf(tag_to_notes, ALL_NOTES)) = 3
    /\ NotesOf(tag_to_notes, "x") = <<cell_header(cells[2])>>

====
